---- MODULE Spec2Model ----
(***************************************************************************)
(* A model of psiphon/upgradeDownload.go: DownloadUpgrade, the resumable   *)
(* download of a client upgrade file into <final>.<version>.part, followed *)
(* by a rename to the final path.                                          *)
(*                                                                         *)
(* The filesystem is a directory (name -> inode) over inodes that hold the *)
(* bytes, so that an open handle keeps designating its file whatever the   *)
(* directory does. Every call of the function that can fail (client        *)
(* construction, open, stat, request construction, the HTTP exchange, the  *)
(* copy, close, rename) has a failing branch; the server's reply is an     *)
(* input of the HTTP step.                                                 *)
(***************************************************************************)
EXTENDS Integers, Sequences, FiniteSets, TLC

(***************************************************************************)
(* Bounds and inputs                                                       *)
(***************************************************************************)

\* The longest file the environment lets a reply produce: a reply to
\* "Range: bytes=L-" carries at most MaxFileLen - L bytes.
MaxFileLen == 3

\* The byte values of file and body contents.
Byte == {1, 2}

\* The remote resource a range-compliant server serves.
Resource == <<1, 2>>

\* The entity that replaces it when the server-side upgrade is replaced.
NewResource == <<2, 1>>

\* The invocations that may be in flight. Spec runs them one at a time
\* (SeqProcs); the second one is there for overlapping invocations.
Procs == {1, 2}
SeqProcs == {1}

\* The values of clientUpgradeVersion.
Versions == {"v1", "v2"}

\* http.StatusPartialContent, http.StatusRequestedRangeNotSatisfiable and
\* two of the statuses the function rejects (http.StatusOK from a server
\* without range support, http.StatusNotFound).
StatusPartialContent == 206
StatusRequestedRangeNotSatisfiable == 416
StatusOK == 200
StatusNotFound == 404
Statuses ==
    {StatusPartialContent, StatusRequestedRangeNotSatisfiable, StatusOK, StatusNotFound}

(***************************************************************************)
(* File names                                                              *)
(***************************************************************************)

\* config.UpgradeDownloadFilename
UpgradeDownloadFilename == "upgrade"

\* A variant that drops the version from the name (every version shares one
\* partial file).
PartialFilenameNoVersion(v) == UpgradeDownloadFilename \o ".part"

\* fmt.Sprintf("%s.%s.part", config.UpgradeDownloadFilename, clientUpgradeVersion)
PartialFilename(v) == UpgradeDownloadFilename \o "." \o v \o ".part"

Names == {UpgradeDownloadFilename} \cup {PartialFilename(v) : v \in Versions}

\* Inode numbers; NoInode is "no such file" in the directory and "no open
\* handle" in a process.
NoInode == 0
Inodes == 1 .. (Cardinality(Names) + Cardinality(Procs))

(***************************************************************************)
(* Sequences of bytes                                                      *)
(***************************************************************************)

SeqsUpTo(k) == UNION {[1 .. m -> Byte] : m \in 0 .. k}

IsPrefix(s, t) == Len(s) <= Len(t) /\ s = SubSeq(t, 1, Len(s))

\* The suffix of s that starts at byte offset off (0-based), as a range
\* request "bytes=off-" designates it.
SuffixFrom(s, off) == SubSeq(s, off + 1, Len(s))

Max0(k) == IF k < 0 THEN 0 ELSE k

(***************************************************************************)
(* State                                                                   *)
(***************************************************************************)

VARIABLES
    dir,        \* the directory: name -> inode, NoInode when the name is absent
    data,       \* inode -> the file's bytes
    pc,         \* invocation -> the statement it is at ("idle": not running)
    version,    \* invocation -> its clientUpgradeVersion
    file,       \* invocation -> the inode `file` is open on, NoInode when closed
    fileSize,   \* invocation -> fileInfo.Size()
    range,      \* invocation -> the offset of its Range header, -1 before there is one
    status,     \* invocation -> response.StatusCode, 0 before there is a response
    body,       \* invocation -> the bytes of response.Body not yet read
    bodyOpen,   \* invocation -> response.Body is obtained and not yet closed
    n,          \* invocation -> the bytes io.Copy has written
    notices,    \* invocation -> the notices it has emitted, in order
    result,     \* invocation -> "none" while running, then "ok" (nil) or "err"
    requests,   \* invocation -> the number of httpClient.Do calls it has made
    renames,    \* invocation -> the number of os.Rename calls it has made
    bodyLen,    \* invocation -> the length of the response body it was handed
    pre,        \* invocation -> the directory and the data when it was called, and
                \*   whether its previous invocation ended with a failed rename
    resource,   \* the entity the server serves at config.UpgradeDownloadUrl
    overlapped  \* some invocation was called while another was in flight

vars == <<dir, data, pc, version, file, fileSize, range, status, body, bodyOpen,
          n, notices, result, requests, renames, bodyLen, pre, resource, overlapped>>

\* The two notices of the function.
NoticeInfoBytes(k) == [notice |-> "Info", bytes |-> k]
NoticeDownloaded == [notice |-> "ClientUpgradeDownloaded", bytes |-> 0]

Exists(d, name) == d[name] # NoInode

\* The bytes stored under a name, <<>> when the name is absent.
Content(d, dt, name) == IF Exists(d, name) THEN dt[d[name]] ELSE <<>>

\* The inodes that a directory entry or an open handle refers to.
InUse(d, f) == {d[nm] : nm \in Names} \cup {f[p] : p \in Procs}

\* An inode that neither a name nor a handle refers to is gone: its bytes
\* are dropped.
Reclaim(dt, d, f) == [i \in Inodes |-> IF i \in InUse(d, f) THEN dt[i] ELSE <<>>]

\* The inode a newly created file gets.
FreshInode(d, f) == CHOOSE i \in Inodes : i \notin InUse(d, f) /\
                        \A j \in Inodes : j \notin InUse(d, f) => i <= j

EmptyDir == [nm \in Names |-> NoInode]
EmptyData == [i \in Inodes |-> <<>>]

Init ==
    /\ dir = EmptyDir
    /\ data = EmptyData
    /\ pc = [p \in Procs |-> "idle"]
    /\ version = [p \in Procs |-> "v1"]
    /\ file = [p \in Procs |-> NoInode]
    /\ fileSize = [p \in Procs |-> 0]
    /\ range = [p \in Procs |-> -1]
    /\ status = [p \in Procs |-> 0]
    /\ body = [p \in Procs |-> <<>>]
    /\ bodyOpen = [p \in Procs |-> FALSE]
    /\ n = [p \in Procs |-> 0]
    /\ notices = [p \in Procs |-> <<>>]
    /\ result = [p \in Procs |-> "none"]
    /\ requests = [p \in Procs |-> 0]
    /\ renames = [p \in Procs |-> 0]
    /\ bodyLen = [p \in Procs |-> 0]
    /\ pre = [p \in Procs |->
                 [dir |-> EmptyDir, data |-> EmptyData, renameFailed |-> FALSE]]
    /\ resource = Resource
    /\ overlapped = FALSE

(***************************************************************************)
(* The server                                                              *)
(***************************************************************************)

Reply(s, b) == [status |-> s, body |-> b]

\* Any server: any status, any body that fits.
AnyReply(off) ==
    {Reply(s, b) : s \in Statuses, b \in SeqsUpTo(Max0(MaxFileLen - off))}

\* A server that follows range semantics on the fixed Resource: 206 with
\* exactly the bytes from the offset to the end, 416 exactly when the offset
\* is at or past the end. What body a 416 carries is the server's business.
RangeReply(off) ==
    IF off < Len(Resource)
    THEN {Reply(StatusPartialContent, SuffixFrom(Resource, off))}
    ELSE {Reply(StatusRequestedRangeNotSatisfiable, b) :
              b \in SeqsUpTo(Max0(MaxFileLen - off))}

(***************************************************************************)
(* DownloadUpgrade, statement by statement                                 *)
(***************************************************************************)

\* A variant of the return without the deferred closes.
ReturnNoDefer(p, r) ==
    /\ pc' = [pc EXCEPT ![p] = "idle"]
    /\ result' = [result EXCEPT ![p] = r]
    /\ UNCHANGED <<bodyOpen, body, file, dir, data>>

\* A return: the deferred response.Body.Close() and file.Close() run, and
\* the caller gets r.
Return(p, r) ==
    /\ pc' = [pc EXCEPT ![p] = "idle"]
    /\ result' = [result EXCEPT ![p] = r]
    /\ bodyOpen' = [bodyOpen EXCEPT ![p] = FALSE]
    /\ body' = [body EXCEPT ![p] = <<>>]
    /\ file' = [file EXCEPT ![p] = NoInode]
    /\ dir' = dir
    /\ data' = Reclaim(data, dir, file')

\* The caller invokes DownloadUpgrade(config, v, tunnel).
Call(p, v) ==
    /\ pc[p] = "idle"
    /\ pc' = [pc EXCEPT ![p] = "stat"]
    /\ version' = [version EXCEPT ![p] = v]
    /\ fileSize' = [fileSize EXCEPT ![p] = 0]
    /\ range' = [range EXCEPT ![p] = -1]
    /\ status' = [status EXCEPT ![p] = 0]
    /\ n' = [n EXCEPT ![p] = 0]
    /\ notices' = [notices EXCEPT ![p] = <<>>]
    /\ result' = [result EXCEPT ![p] = "none"]
    /\ requests' = [requests EXCEPT ![p] = 0]
    /\ renames' = [renames EXCEPT ![p] = 0]
    /\ bodyLen' = [bodyLen EXCEPT ![p] = 0]
    /\ pre' = [pre EXCEPT ![p] =
                  [dir |-> dir, data |-> data,
                   renameFailed |-> result[p] = "err" /\ renames[p] = 1]]
    /\ overlapped' = (overlapped \/ \E q \in Procs \ {p} : pc[q] # "idle")
    /\ UNCHANGED <<resource, dir, data, file, body, bodyOpen>>

\* A variant of the completion check that never finds the file.
StatSucceedsNever(d) == FALSE

\* os.Stat(config.UpgradeDownloadFilename) returns err == nil
StatSucceeds(d) == Exists(d, UpgradeDownloadFilename)

\* The complete file is there: notice, return nil.
AlreadyDownloaded(p) ==
    /\ pc[p] = "stat"
    /\ StatSucceeds(dir)
    /\ notices' = [notices EXCEPT ![p] = Append(@, NoticeDownloaded)]
    /\ Return(p, "ok")
    /\ UNCHANGED <<resource, overlapped, version, fileSize, range, status, n, requests, renames, bodyLen, pre>>

NotDownloaded(p) ==
    /\ pc[p] = "stat"
    /\ ~StatSucceeds(dir)
    /\ pc' = [pc EXCEPT ![p] = "client"]
    /\ UNCHANGED <<resource, overlapped, dir, data, version, file, fileSize, range, status, body, bodyOpen,
                   n, notices, result, requests, renames, bodyLen, pre>>

\* MakeTunneledHttpClient
MakeClientOK(p) ==
    /\ pc[p] = "client"
    /\ pc' = [pc EXCEPT ![p] = "open"]
    /\ UNCHANGED <<resource, overlapped, dir, data, version, file, fileSize, range, status, body, bodyOpen,
                   n, notices, result, requests, renames, bodyLen, pre>>

\* A failing step that returns ContextError(err); the deferred calls run.
Fail(p, at) ==
    /\ pc[p] = at
    /\ Return(p, "err")
    /\ UNCHANGED <<resource, overlapped, version, fileSize, range, status, n, notices, requests, renames,
                   bodyLen, pre>>

MakeClientErr(p) == Fail(p, "client")

\* A variant of the open that truncates an existing file (O_TRUNC).
OpenedBytesTruncated(bytes) == <<>>

\* The bytes of an existing file once it is opened with
\* O_CREATE|O_APPEND|O_WRONLY: all of them.
OpenedBytes(bytes) == bytes

\* os.OpenFile(partialFilename, O_CREATE|O_APPEND|O_WRONLY, 0600)
OpenFileOK(p) ==
    /\ pc[p] = "open"
    /\ LET name == PartialFilename(version[p])
           i == IF Exists(dir, name) THEN dir[name] ELSE FreshInode(dir, file)
       IN  /\ dir' = [dir EXCEPT ![name] = i]
           /\ data' = [data EXCEPT ![i] = IF Exists(dir, name) THEN OpenedBytes(@) ELSE <<>>]
           /\ file' = [file EXCEPT ![p] = i]
    /\ pc' = [pc EXCEPT ![p] = "fstat"]
    /\ UNCHANGED <<resource, overlapped, version, fileSize, range, status, body, bodyOpen, n, notices, result,
                   requests, renames, bodyLen, pre>>

OpenFileErr(p) == Fail(p, "open")

\* A variant of the measurement that always reports an empty file.
SizeOfZero(bytes) == 0

\* fileInfo.Size()
SizeOf(bytes) == Len(bytes)

\* file.Stat()
FileStatOK(p) ==
    /\ pc[p] = "fstat"
    /\ fileSize' = [fileSize EXCEPT ![p] = SizeOf(data[file[p]])]
    /\ pc' = [pc EXCEPT ![p] = "request"]
    /\ UNCHANGED <<resource, overlapped, dir, data, version, file, range, status, body, bodyOpen, n, notices,
                   result, requests, renames, bodyLen, pre>>

FileStatErr(p) == Fail(p, "fstat")

\* http.NewRequest, and the Range header "bytes=%d-" of fileInfo.Size()
NewRequestOK(p) ==
    /\ pc[p] = "request"
    /\ range' = [range EXCEPT ![p] = fileSize[p]]
    /\ pc' = [pc EXCEPT ![p] = "do"]
    /\ UNCHANGED <<resource, overlapped, dir, data, version, file, fileSize, status, body, bodyOpen, n, notices,
                   result, requests, renames, bodyLen, pre>>

NewRequestErr(p) == Fail(p, "request")

\* A variant of the status test that lets every status through.
ExpectedStatusAny(s) == TRUE

\* The status test: 206 or 416, anything else is "unexpected response
\* status code".
ExpectedStatus(s) ==
    s = StatusPartialContent \/ s = StatusRequestedRangeNotSatisfiable

\* A variant that sends the request again when the transport fails.
DoErrRetries(p) ==
    /\ pc[p] = "do"
    /\ requests' = [requests EXCEPT ![p] = @ + 1]
    /\ UNCHANGED <<resource, overlapped, dir, data, pc, version, file, fileSize, range,
                   status, body, bodyOpen, n, notices, result, renames, bodyLen, pre>>

\* httpClient.Do(request) fails: no response.
DoErr(p) ==
    /\ pc[p] = "do"
    /\ requests' = [requests EXCEPT ![p] = @ + 1]
    /\ Return(p, "err")
    /\ UNCHANGED <<resource, overlapped, version, fileSize, range, status, n, notices, renames, bodyLen, pre>>

\* The response has an unexpected status: response.Body.Close(), then the
\* error return.
Reject(p, r) ==
    /\ pc[p] = "do"
    /\ ~ExpectedStatus(r.status)
    /\ status' = [status EXCEPT ![p] = r.status]
    /\ requests' = [requests EXCEPT ![p] = @ + 1]
    /\ Return(p, "err")
    /\ UNCHANGED <<resource, overlapped, version, fileSize, range, n, notices, renames, bodyLen, pre>>

\* The response has a status the function goes on with.
Accept(p, r) ==
    /\ pc[p] = "do"
    /\ ExpectedStatus(r.status)
    /\ status' = [status EXCEPT ![p] = r.status]
    /\ body' = [body EXCEPT ![p] = r.body]
    /\ bodyLen' = [bodyLen EXCEPT ![p] = Len(r.body)]
    /\ bodyOpen' = [bodyOpen EXCEPT ![p] = TRUE]
    /\ requests' = [requests EXCEPT ![p] = @ + 1]
    /\ pc' = [pc EXCEPT ![p] = "copy"]
    /\ UNCHANGED <<resource, overlapped, dir, data, version, file, fileSize, range, n, notices, result,
                   renames, pre>>

\* httpClient.Do(request) returns a response, of any server.
DoUnexpected(p) ==
    /\ pc[p] = "do"
    /\ \E r \in AnyReply(range[p]) : Reject(p, r)

DoExpected(p) ==
    /\ pc[p] = "do"
    /\ \E r \in AnyReply(range[p]) : Accept(p, r)

\* httpClient.Do(request) returns the response of the range-compliant server
\* (whose statuses are all expected ones).
DoRange(p) ==
    /\ pc[p] = "do"
    /\ \E r \in RangeReply(range[p]) : Accept(p, r)

\* io.Copy moves the next byte of response.Body to the file; the file is
\* open with O_APPEND, so the byte lands at the file's current end.
CopyByte(p) ==
    /\ pc[p] = "copy"
    /\ body[p] # <<>>
    /\ file[p] # NoInode
    /\ data' = [data EXCEPT ![file[p]] = Append(@, Head(body[p]))]
    /\ body' = [body EXCEPT ![p] = Tail(@)]
    /\ n' = [n EXCEPT ![p] = @ + 1]
    /\ UNCHANGED <<resource, overlapped, dir, pc, version, file, fileSize, range, status, bodyOpen, notices,
                   result, requests, renames, bodyLen, pre>>

\* io.Copy fails, reading the body or writing the file.
CopyErr(p) == Fail(p, "copy")

\* io.Copy reaches the end of the body and returns (n, nil).
CopyEOF(p) ==
    /\ pc[p] = "copy"
    /\ body[p] = <<>>
    /\ pc' = [pc EXCEPT ![p] = "info"]
    /\ UNCHANGED <<resource, overlapped, dir, data, version, file, fileSize, range, status, body, bodyOpen, n,
                   notices, result, requests, renames, bodyLen, pre>>

\* A variant that goes on without the byte-count notice.
NoticeBytesSilent(p) ==
    /\ pc[p] = "info"
    /\ pc' = [pc EXCEPT ![p] = "close"]
    /\ UNCHANGED <<resource, overlapped, dir, data, version, file, fileSize, range, status, body, bodyOpen, n,
                   notices, result, requests, renames, bodyLen, pre>>

\* NoticeInfo("client upgrade downloaded bytes: %d", n)
NoticeBytes(p) ==
    /\ pc[p] = "info"
    /\ notices' = [notices EXCEPT ![p] = Append(@, NoticeInfoBytes(n[p]))]
    /\ pc' = [pc EXCEPT ![p] = "close"]
    /\ UNCHANGED <<resource, overlapped, dir, data, version, file, fileSize, range, status, body, bodyOpen, n,
                   result, requests, renames, bodyLen, pre>>

\* A variant that goes on to the rename with the file still open, leaving
\* the close to the deferred call.
CloseLeftToDefer(p) ==
    /\ pc[p] = "close"
    /\ pc' = [pc EXCEPT ![p] = "rename"]
    /\ UNCHANGED <<resource, overlapped, dir, data, version, file, fileSize, range, status, body, bodyOpen, n,
                   notices, result, requests, renames, bodyLen, pre>>

\* file.Close() succeeds.
CloseOK(p) ==
    /\ pc[p] = "close"
    /\ file' = [file EXCEPT ![p] = NoInode]
    /\ data' = Reclaim(data, dir, file')
    /\ pc' = [pc EXCEPT ![p] = "rename"]
    /\ UNCHANGED <<resource, overlapped, dir, version, fileSize, range, status, body, bodyOpen, n, notices,
                   result, requests, renames, bodyLen, pre>>

\* file.Close() fails; the descriptor is released all the same.
CloseErr(p) == Fail(p, "close")

\* os.Rename(partialFilename, config.UpgradeDownloadFilename) succeeds: the
\* final name now designates the partial file's inode, the partial name is
\* gone, and a file the final name designated before is unlinked.
RenameOK(p) ==
    /\ pc[p] = "rename"
    /\ LET name == PartialFilename(version[p])
       IN  /\ Exists(dir, name)
           /\ dir' = [dir EXCEPT ![UpgradeDownloadFilename] = dir[name],
                                 ![name] = NoInode]
    /\ data' = Reclaim(data, dir', file)
    /\ renames' = [renames EXCEPT ![p] = @ + 1]
    /\ pc' = [pc EXCEPT ![p] = "downloaded"]
    /\ UNCHANGED <<resource, overlapped, version, file, fileSize, range, status, body, bodyOpen, n, notices,
                   result, requests, bodyLen, pre>>

\* os.Rename fails (it must when the partial name is gone).
RenameErr(p) ==
    /\ pc[p] = "rename"
    /\ renames' = [renames EXCEPT ![p] = @ + 1]
    /\ Return(p, "err")
    /\ UNCHANGED <<resource, overlapped, version, fileSize, range, status, n, notices, requests, bodyLen, pre>>

\* NoticeClientUpgradeDownloaded(config.UpgradeDownloadFilename); return nil
Downloaded(p) ==
    /\ pc[p] = "downloaded"
    /\ notices' = [notices EXCEPT ![p] = Append(@, NoticeDownloaded)]
    /\ Return(p, "ok")
    /\ UNCHANGED <<resource, overlapped, version, fileSize, range, status, n, requests, renames, bodyLen, pre>>

(***************************************************************************)
(* Specifications                                                          *)
(***************************************************************************)

\* The steps of an invocation that do not involve the server.
LocalStep(p) ==
    \/ AlreadyDownloaded(p)
    \/ NotDownloaded(p)
    \/ MakeClientOK(p)
    \/ MakeClientErr(p)
    \/ OpenFileOK(p)
    \/ OpenFileErr(p)
    \/ FileStatOK(p)
    \/ FileStatErr(p)
    \/ NewRequestOK(p)
    \/ NewRequestErr(p)
    \/ DoErr(p)
    \/ CopyByte(p)
    \/ CopyErr(p)
    \/ CopyEOF(p)
    \/ NoticeBytes(p)
    \/ CloseOK(p)
    \/ CloseErr(p)
    \/ RenameOK(p)
    \/ RenameErr(p)
    \/ Downloaded(p)

\* Invocations that never overlap, any version each time, any server.
Next ==
    \E p \in SeqProcs :
        \/ \E v \in Versions : Call(p, v)
        \/ LocalStep(p)
        \/ DoUnexpected(p)
        \/ DoExpected(p)

Spec == Init /\ [][Next]_vars

\* Invocations that never overlap, any version each time, against a server
\* that follows range semantics on the fixed Resource.
NextRange ==
    \E p \in SeqProcs :
        \/ \E v \in Versions : Call(p, v)
        \/ LocalStep(p)
        \/ DoRange(p)

SpecRange == Init /\ [][NextRange]_vars

\* A caller that invokes DownloadUpgrade with the same inputs again and again,
\* against the range-compliant server.
RetryVersion == "v1"

NextRetry ==
    \E p \in SeqProcs :
        \/ Call(p, RetryVersion)
        \/ LocalStep(p)
        \/ DoRange(p)

\* The caller keeps calling and an invocation keeps stepping (weak fairness);
\* no step that can fail fails forever (strong fairness of its success).
RetryFairness ==
    \A p \in SeqProcs :
        /\ WF_vars(Call(p, RetryVersion))
        /\ WF_vars(AlreadyDownloaded(p))
        /\ WF_vars(NotDownloaded(p))
        /\ SF_vars(MakeClientOK(p))
        /\ SF_vars(OpenFileOK(p))
        /\ SF_vars(FileStatOK(p))
        /\ SF_vars(NewRequestOK(p))
        /\ SF_vars(DoRange(p))
        /\ SF_vars(CopyByte(p))
        /\ SF_vars(CopyEOF(p))
        /\ WF_vars(NoticeBytes(p))
        /\ SF_vars(CloseOK(p))
        /\ SF_vars(RenameOK(p))
        /\ WF_vars(Downloaded(p))

SpecRetry == Init /\ [][NextRetry]_vars /\ RetryFairness

\* The server-side upgrade entity is replaced, between two attempts.
ReplaceResource ==
    /\ \A p \in Procs : pc[p] = "idle"
    /\ resource = Resource
    /\ resource' = NewResource
    /\ UNCHANGED <<overlapped, dir, data, pc, version, file, fileSize, range, status,
                   body, bodyOpen, n, notices, result, requests, renames, bodyLen, pre>>

\* The reply of a server that follows range semantics on the entity it
\* holds now.
ServedReply(off) ==
    IF off < Len(resource)
    THEN {Reply(StatusPartialContent, SuffixFrom(resource, off))}
    ELSE {Reply(StatusRequestedRangeNotSatisfiable, b) :
              b \in SeqsUpTo(Max0(MaxFileLen - off))}

DoServed(p) ==
    /\ pc[p] = "do"
    /\ \E r \in ServedReply(range[p]) : Accept(p, r)

\* Attempts under one version that never overlap, with the entity replaced
\* once between two of them.
NextReplace ==
    \/ ReplaceResource
    \/ \E p \in SeqProcs :
          \/ Call(p, RetryVersion)
          \/ LocalStep(p)
          \/ DoServed(p)

SpecReplace == Init /\ [][NextReplace]_vars

\* Two callers of DownloadUpgrade for the same final path and version, each
\* free to call while the other's invocation is in flight. Once two
\* invocations have overlapped the callers make no further call and the
\* invocations in flight run to their ends: every behaviour without an
\* overlap, and every behaviour up to the end of its first overlap, is kept.
NextOverlap ==
    \E p \in Procs :
        \/ ~overlapped /\ Call(p, RetryVersion)
        \/ LocalStep(p)
        \/ DoRange(p)

SpecOverlap == Init /\ [][NextOverlap]_vars

(***************************************************************************)
(* Vocabulary of the properties                                            *)
(***************************************************************************)

Final == UpgradeDownloadFilename
Partial(p) == PartialFilename(version[p])

\* The invocation has returned.
Returned(p) == pc[p] = "idle" /\ result[p] # "none"

\* The invocation is past its completion check (or has returned).
PastCheck(p) == pc[p] \notin {"idle", "stat"} \/ Returned(p)

\* What the invocation found when it was called.
PreFinalExists(p) == Exists(pre[p].dir, Final)
PrePartialExists(p) == Exists(pre[p].dir, Partial(p))
PrePartial(p) == Content(pre[p].dir, pre[p].data, Partial(p))
PartialNow(p) == Content(dir, data, Partial(p))
FinalNow == Content(dir, data, Final)

\* The copy has returned without error.
CopyDone(p) == pc[p] \in {"info", "close", "rename"}

(***************************************************************************)
(* C1. Idempotent short-circuit: an invocation called while the Final      *)
(* Artifact exists, whatever its version, returns success at its first     *)
(* step, having issued no HTTP request, opened or renamed no file, and     *)
(* left the directory and every file's bytes as they were.                 *)
(***************************************************************************)
C1_ShortCircuit ==
    \A p \in Procs :
        (PastCheck(p) /\ PreFinalExists(p)) =>
            /\ Returned(p) /\ result[p] = "ok"
            /\ requests[p] = 0 /\ renames[p] = 0
            /\ file[p] = NoInode /\ range[p] = -1
            /\ dir = pre[p].dir /\ data = pre[p].data

\* A short-circuited invocation whose own partial file is still there: the
\* Final Artifact was published under the other version.
C1_Witness ==
    \E p \in Procs :
        /\ Returned(p) /\ PreFinalExists(p)
        /\ Exists(dir, Partial(p)) /\ PartialNow(p) # <<>>

(***************************************************************************)
(* C2. Resume correctness: an invocation that reaches the network step     *)
(* makes one request, whose Range offset L is the length the Partial File  *)
(* had when it was opened (0 if it was created); once a 206 body of K      *)
(* bytes is copied without error, the Partial File is L+K bytes long and   *)
(* its first L bytes are the ones it had.                                  *)
(***************************************************************************)
C2_ResumeCorrectness ==
    \A p \in Procs :
        /\ range[p] # -1 => range[p] = Len(PrePartial(p))
        /\ requests[p] <= 1
        /\ (CopyDone(p) /\ status[p] = StatusPartialContent) =>
              /\ requests[p] = 1
              /\ Len(PartialNow(p)) = range[p] + bodyLen[p]
              /\ SubSeq(PartialNow(p), 1, range[p]) = PrePartial(p)

\* A resumed download: the request asked for a positive offset and the 206
\* body, not empty, has been copied.
C2_Witness ==
    \E p \in Procs :
        /\ pc[p] = "close" /\ status[p] = StatusPartialContent
        /\ range[p] > 0 /\ bodyLen[p] > 0

(***************************************************************************)
(* C3. 416 finalize-only path: on a 416 response no byte of the response   *)
(* body is appended to the Partial File, the reported byte count is 0, and *)
(* the file published is the Partial File as it was when the invocation    *)
(* started.                                                                *)
(***************************************************************************)
C3_NoBodyCopiedOn416 ==
    \A p \in Procs :
        status[p] = StatusRequestedRangeNotSatisfiable =>
            /\ n[p] = 0
            /\ CopyDone(p) => PartialNow(p) = PrePartial(p)
            /\ result[p] = "ok" =>
                  /\ FinalNow = PrePartial(p)
                  /\ notices[p] = <<NoticeInfoBytes(0), NoticeDownloaded>>

(***************************************************************************)
(* C4. Atomic publish: no invocation holds the file at the final path open,*)
(* and the final path changes only by the rename of an invocation that has *)
(* copied its whole response body and closed the Partial File, to that     *)
(* Partial File.                                                           *)
(***************************************************************************)
C4_NoWriterOnFinal ==
    Exists(dir, Final) => \A p \in Procs : file[p] # dir[Final]

C4_PublishStep ==
    dir'[Final] # dir[Final] =>
        \E p \in Procs :
            /\ pc[p] = "rename" /\ pc'[p] = "downloaded"
            /\ file[p] = NoInode /\ body[p] = <<>>
            /\ dir[Partial(p)] # NoInode
            /\ dir'[Final] = dir[Partial(p)]
            /\ data'[dir'[Final]] = data[dir[Partial(p)]]

C4_AtomicPublish == [](C4_NoWriterOnFinal) /\ [][C4_PublishStep]_vars

\* The Final Artifact has just been published, by an invocation that
\* appended bytes in this invocation.
C4_Witness ==
    \E p \in Procs :
        /\ pc[p] = "downloaded" /\ Exists(dir, Final)
        /\ n[p] > 0 /\ FinalNow # <<>>

(***************************************************************************)
(* C5. Published content is the whole resource: against a range-compliant  *)
(* server of a fixed resource, every Partial File is a prefix of the       *)
(* resource and the Final Artifact, when there is one, is the resource.    *)
(***************************************************************************)
C5_WholeResource ==
    /\ \A v \in Versions :
          IsPrefix(Content(dir, data, PartialFilename(v)), Resource)
    /\ Exists(dir, Final) => FinalNow = Resource

(***************************************************************************)
(* C6. Transport failure leaves state intact: when the HTTP call fails and *)
(* the Partial File existed before the invocation, the invocation returns  *)
(* an error, the Partial File is the same file with the same bytes, and    *)
(* nothing is at the final path.                                           *)
(***************************************************************************)
TransportFailed(p) == Returned(p) /\ requests[p] = 1 /\ status[p] = 0

C6_TransportFailure ==
    \A p \in Procs :
        (TransportFailed(p) /\ PrePartialExists(p)) =>
            /\ result[p] = "err"
            /\ dir = pre[p].dir
            /\ Exists(dir, Partial(p))
            /\ PartialNow(p) = PrePartial(p)
            /\ ~Exists(dir, Final)
            /\ renames[p] = 0 /\ n[p] = 0

\* A transport failure over a Partial File that holds bytes of a prior
\* attempt.
C6_Witness ==
    \E p \in Procs : TransportFailed(p) /\ Len(PrePartial(p)) > 0

(***************************************************************************)
(* C7. Protocol error. As claimed: on a status other than 206 and 416 the  *)
(* invocation returns an error, renames nothing, emits nothing, and the    *)
(* Partial File is as before the call: same existence, same bytes.         *)
(***************************************************************************)
UnexpectedStatus(p) == status[p] \notin {0, StatusPartialContent,
                                         StatusRequestedRangeNotSatisfiable}

C7_PartialUntouched ==
    \A p \in Procs :
        UnexpectedStatus(p) =>
            /\ Returned(p) /\ result[p] = "err"
            /\ renames[p] = 0 /\ notices[p] = <<>>
            /\ Exists(dir, Partial(p)) = PrePartialExists(p)
            /\ PartialNow(p) = PrePartial(p)

(***************************************************************************)
(* C7, amended. On a status other than 206 and 416 the invocation returns  *)
(* an error, renames nothing, emits nothing and appends nothing; a Partial *)
(* File that existed is the same file with the same bytes, and one that    *)
(* did not exist now exists and is empty. Nothing else changes.            *)
(***************************************************************************)
C7_ProtocolError ==
    \A p \in Procs :
        UnexpectedStatus(p) =>
            /\ Returned(p) /\ result[p] = "err"
            /\ renames[p] = 0 /\ notices[p] = <<>> /\ n[p] = 0
            /\ Exists(dir, Partial(p))
            /\ PartialNow(p) = PrePartial(p)
            /\ PrePartialExists(p) => dir = pre[p].dir
            /\ \A nm \in Names \ {Partial(p)} : dir[nm] = pre[p].dir[nm]
            /\ ~Exists(dir, Final)

\* An unexpected status over a Partial File that holds bytes.
C7_Witness ==
    \E p \in Procs : UnexpectedStatus(p) /\ Returned(p) /\ Len(PrePartial(p)) > 0

(***************************************************************************)
(* C8. Success result. As claimed: every invocation that returns success   *)
(* leaves the Final Artifact in place and has emitted a bytes-transferred  *)
(* event and an artifact-available event.                                  *)
(***************************************************************************)
HasNotice(p, kind) == \E i \in 1 .. Len(notices[p]) : notices[p][i].notice = kind

C8_BothEventsOnSuccess ==
    \A p \in Procs :
        (Returned(p) /\ result[p] = "ok") =>
            /\ Exists(dir, Final)
            /\ HasNotice(p, "Info")
            /\ HasNotice(p, "ClientUpgradeDownloaded")

(***************************************************************************)
(* C8, amended. Every invocation that returns success leaves the Final     *)
(* Artifact in place and has emitted the artifact-available event last. On *)
(* the 206 and 416 paths it has emitted before it one bytes-transferred    *)
(* event, whose count is the number of bytes this invocation appended; on  *)
(* the already-present short-circuit it has emitted no bytes-transferred   *)
(* event.                                                                  *)
(***************************************************************************)
C8_SuccessResult ==
    \A p \in Procs :
        (Returned(p) /\ result[p] = "ok") =>
            /\ Exists(dir, Final)
            /\ IF PreFinalExists(p)
               THEN notices[p] = <<NoticeDownloaded>>
               ELSE /\ notices[p] = <<NoticeInfoBytes(n[p]), NoticeDownloaded>>
                    /\ status[p] \in {StatusPartialContent,
                                      StatusRequestedRangeNotSatisfiable}
                    /\ n[p] = Len(FinalNow) - Len(PrePartial(p))

\* A success on the 416 path and one on the 206 path that transferred bytes
\* are both reachable; the witness is the latter.
C8_Witness ==
    \E p \in Procs :
        /\ Returned(p) /\ result[p] = "ok"
        /\ status[p] = StatusPartialContent /\ n[p] > 0

(***************************************************************************)
(* C9. Eventual full-length retrieval: under SpecRetry (the caller retries *)
(* with the same inputs, no step fails forever) the Final Artifact         *)
(* eventually exists, and every request resumes at the length the Partial  *)
(* File was left with by the attempts before it.                           *)
(***************************************************************************)
C9_ResumesFromLeftover ==
    \A p \in Procs :
        range[p] # -1 => range[p] = Len(PrePartial(p))

C9_EventualRetrieval == <>(Exists(dir, Final)) /\ [](C9_ResumesFromLeftover)

\* The Final Artifact published by a retry that resumed at a positive
\* offset.
C9_Witness ==
    \E p \in Procs :
        /\ Exists(dir, Final) /\ Returned(p) /\ result[p] = "ok"
        /\ range[p] > 0 /\ status[p] = StatusPartialContent

(***************************************************************************)
(* C10. Version isolation: an invocation with version v holds open only    *)
(* the Partial File of v, measures that file, and leaves the Partial File  *)
(* of every other version as it was: same file, same bytes.                *)
(***************************************************************************)
C10_VersionIsolation ==
    \A p \in Procs :
        /\ file[p] # NoInode => file[p] = dir[Partial(p)]
        /\ range[p] # -1 => range[p] = Len(PrePartial(p))
        /\ PastCheck(p) =>
              \A v \in Versions \ {version[p]} :
                  /\ PartialFilename(v) # Partial(p)
                  /\ dir[PartialFilename(v)] = pre[p].dir[PartialFilename(v)]
                  /\ Content(dir, data, PartialFilename(v)) =
                        Content(pre[p].dir, pre[p].data, PartialFilename(v))

\* An invocation that appended to its own Partial File while the other
\* version's Partial File holds bytes of a different length.
C10_Witness ==
    \E p \in Procs : \E v \in Versions \ {version[p]} :
        /\ pc[p] = "close" /\ n[p] > 0
        /\ Exists(dir, PartialFilename(v))
        /\ Len(Content(dir, data, PartialFilename(v))) > 0
        /\ Len(Content(dir, data, PartialFilename(v))) # range[p]

(***************************************************************************)
(* C11. Flush-before-rename ordering: os.Rename is only attempted by an    *)
(* invocation whose copy has consumed the whole body without error and     *)
(* whose Partial File is closed; an invocation whose copy or close fails   *)
(* returns without having attempted the rename.                            *)
(***************************************************************************)
C11_RenameStep ==
    \A p \in Procs :
        /\ renames'[p] > renames[p] =>
              /\ pc[p] = "rename"
              /\ file[p] = NoInode
              /\ body[p] = <<>> /\ n[p] = bodyLen[p]
              /\ Len(PartialNow(p)) = Len(PrePartial(p)) + n[p]
        /\ (pc[p] \in {"copy", "close"} /\ result'[p] = "err") =>
              /\ pc'[p] = "idle"
              /\ renames'[p] = 0

C11_FlushBeforeRename ==
    [](\A p \in Procs : pc[p] = "rename" => file[p] = NoInode /\ renames[p] = 0)
        /\ [][C11_RenameStep]_vars

\* A rename was attempted (and failed) after bytes were appended and the
\* file was closed.
C11_Witness ==
    \E p \in Procs :
        /\ Returned(p) /\ result[p] = "err"
        /\ renames[p] = 1 /\ n[p] > 0

(***************************************************************************)
(* C12. Rename is the single publish point and is recoverable: a failed    *)
(* rename returns an error with the Final Artifact absent and the Partial  *)
(* File present with all the bytes appended so far; a successful one       *)
(* leaves the Final Artifact and no Partial File; and the invocation that  *)
(* follows a failed rename of a fully downloaded Partial File requests the *)
(* full length, gets 416 and appends nothing.                              *)
(***************************************************************************)
RenameFailed(p) == Returned(p) /\ result[p] = "err" /\ renames[p] = 1

C12_RenameOutcome ==
    \A p \in Procs :
        /\ RenameFailed(p) =>
              /\ ~Exists(dir, Final)
              /\ Exists(dir, Partial(p))
              /\ IsPrefix(PrePartial(p), PartialNow(p))
              /\ Len(PartialNow(p)) = Len(PrePartial(p)) + n[p]
        /\ pc[p] = "downloaded" =>
              /\ Exists(dir, Final)
              /\ ~Exists(dir, Partial(p))

AfterFailedRenameOfFull(p) ==
    /\ pre[p].renameFailed
    /\ PrePartialExists(p)
    /\ PrePartial(p) = Resource

C12_RenameRecoverable ==
    /\ C12_RenameOutcome
    /\ \A p \in Procs :
          AfterFailedRenameOfFull(p) =>
              /\ range[p] # -1 => range[p] = Len(Resource)
              /\ status[p] # 0 => status[p] = StatusRequestedRangeNotSatisfiable
              /\ n[p] = 0
              /\ pc[p] = "downloaded" => FinalNow = Resource

(***************************************************************************)
(* C13. Stream error keeps received bytes: when the copy of a 206 body     *)
(* fails after j bytes were appended to a Partial File of length L, the    *)
(* invocation returns an error without a rename, the Partial File is L+j   *)
(* bytes long with its first L bytes unchanged, and the request of an      *)
(* invocation is always for the length the Partial File was left with.     *)
(***************************************************************************)
CopyFailed(p) ==
    /\ Returned(p) /\ result[p] = "err"
    /\ status[p] = StatusPartialContent
    /\ notices[p] = <<>>

C13_StreamError ==
    \A p \in Procs :
        /\ CopyFailed(p) =>
              /\ renames[p] = 0
              /\ ~Exists(dir, Final)
              /\ Exists(dir, Partial(p))
              /\ Len(PartialNow(p)) = Len(PrePartial(p)) + n[p]
              /\ SubSeq(PartialNow(p), 1, Len(PrePartial(p))) = PrePartial(p)
        /\ pc[p] = "do" => range[p] = Len(PartialNow(p))

\* A copy that failed after appending to a Partial File that already held
\* bytes.
C13_Witness ==
    \E p \in Procs :
        CopyFailed(p) /\ n[p] > 0 /\ Len(PrePartial(p)) > 0

(***************************************************************************)
(* C14. Event ordering. As claimed: an invocation that performs a transfer *)
(* emits its events only after the rename has succeeded, bytes-transferred *)
(* then artifact-available, and an invocation that returns an error has    *)
(* emitted no event.                                                       *)
(***************************************************************************)
C14_EventsOnlyAfterRename ==
    \A p \in Procs :
        ~PreFinalExists(p) =>
            /\ notices[p] # <<>> => (renames[p] = 1 /\ Exists(dir, Final))
            /\ (Returned(p) /\ result[p] = "err") => notices[p] = <<>>
            /\ (Returned(p) /\ result[p] = "ok") =>
                  notices[p] = <<NoticeInfoBytes(n[p]), NoticeDownloaded>>

(***************************************************************************)
(* C14, amended. In an invocation that performs a transfer the             *)
(* bytes-transferred event is emitted once the copy has finished without   *)
(* error, before the close and the rename, with the number of bytes this   *)
(* invocation appended; the artifact-available event is emitted after it,  *)
(* only once the rename has succeeded. An invocation that fails before the *)
(* copy has finished emits neither; one that fails at the close or at the  *)
(* rename has emitted bytes-transferred alone.                             *)
(***************************************************************************)
C14_EventOrdering ==
    \A p \in Procs :
        ~PreFinalExists(p) =>
            /\ notices[p] \in {<<>>, <<NoticeInfoBytes(n[p])>>,
                               <<NoticeInfoBytes(n[p]), NoticeDownloaded>>}
            /\ notices[p] # <<>> =>
                  /\ body[p] = <<>> /\ n[p] = bodyLen[p]
                  /\ status[p] \in {StatusPartialContent,
                                    StatusRequestedRangeNotSatisfiable}
                  /\ n[p] = Len(IF renames[p] = 1 /\ Exists(dir, Final)
                                THEN FinalNow ELSE PartialNow(p))
                            - Len(PrePartial(p))
            /\ pc[p] \in {"close", "rename", "downloaded"} =>
                  notices[p] = <<NoticeInfoBytes(n[p])>>
            /\ Len(notices[p]) = 2 <=> (Returned(p) /\ result[p] = "ok")
            /\ (Returned(p) /\ result[p] = "ok") =>
                  renames[p] = 1 /\ Exists(dir, Final)
            /\ (Returned(p) /\ result[p] = "err" /\ notices[p] # <<>>) =>
                  notices[p] = <<NoticeInfoBytes(n[p])>>
            /\ CopyFailed(p) => notices[p] = <<>>
            /\ RenameFailed(p) => notices[p] = <<NoticeInfoBytes(n[p])>>

\* A failed rename after a transfer: the byte count has been reported, the
\* artifact has not.
C14_Witness ==
    \E p \in Procs :
        /\ RenameFailed(p) /\ n[p] > 0
        /\ notices[p] = <<NoticeInfoBytes(n[p])>>

(***************************************************************************)
(* C15. The Final Artifact is never zero-length. As claimed: whatever the  *)
(* server replies, no zero-length file is visible at the final path.       *)
(***************************************************************************)
C15_FinalNeverEmpty ==
    Exists(dir, Final) => FinalNow # <<>>

(***************************************************************************)
(* C15, amended. The file an invocation publishes is zero-length exactly   *)
(* when the Partial File it found was absent or empty and the 206 or 416   *)
(* response it copied had an empty body; otherwise it holds the bytes the  *)
(* Partial File had plus those of the body.                                *)
(***************************************************************************)
C15_EmptyOnlyFromEmpty ==
    \A p \in Procs :
        pc[p] = "downloaded" =>
            /\ Len(FinalNow) = Len(PrePartial(p)) + bodyLen[p]
            /\ FinalNow = <<>> <=> (PrePartial(p) = <<>> /\ bodyLen[p] = 0)

\* A zero-length Final Artifact, just published on a 416 response.
C15_Witness ==
    \E p \in Procs :
        /\ pc[p] = "downloaded" /\ Exists(dir, Final) /\ FinalNow = <<>>
        /\ status[p] = StatusRequestedRangeNotSatisfiable

(***************************************************************************)
(* C16. Single attempt: an invocation makes at most one HTTP request and   *)
(* at most one rename attempt, the request only from the request step and  *)
(* the rename only after it; it makes no request when the Final Artifact   *)
(* exists or when it fails before the request is built, and a failure      *)
(* ends it.                                                                *)
(***************************************************************************)
C16_State ==
    \A p \in Procs :
        /\ requests[p] <= 1 /\ renames[p] <= 1
        /\ renames[p] = 1 => requests[p] = 1
        /\ requests[p] = 1 => range[p] # -1
        /\ pc[p] \in {"stat", "client", "open", "fstat", "request", "do"} =>
              requests[p] = 0
        /\ (PastCheck(p) /\ PreFinalExists(p)) => requests[p] = 0
        /\ (Returned(p) /\ range[p] = -1) => requests[p] = 0 /\ renames[p] = 0

C16_Step ==
    \A p \in Procs :
        /\ result'[p] = "err" => pc'[p] = "idle"
        /\ (result[p] = "err" /\ pc'[p] # "idle") =>
              pc'[p] = "stat" /\ requests'[p] = 0 /\ renames'[p] = 0

C16_SingleAttempt == [](C16_State) /\ [][C16_Step]_vars

\* An invocation that failed after creating the Partial File and before
\* making a request.
C16_Witness ==
    \E p \in Procs :
        /\ Returned(p) /\ result[p] = "err" /\ requests[p] = 0
        /\ Exists(dir, Partial(p)) /\ ~PrePartialExists(p)

(***************************************************************************)
(* C17. Guaranteed release: an invocation that has returned holds neither  *)
(* the Partial File handle nor a response body; a body is only held from   *)
(* an accepted response to the return; on an unexpected status the body is *)
(* closed and none of it has been written to the Partial File.             *)
(***************************************************************************)
C17_GuaranteedRelease ==
    \A p \in Procs :
        /\ pc[p] = "idle" => file[p] = NoInode /\ ~bodyOpen[p]
        /\ bodyOpen[p] => pc[p] \in {"copy", "info", "close", "rename", "downloaded"}
        /\ file[p] # NoInode =>
              pc[p] \in {"fstat", "request", "do", "copy", "info", "close"}
        /\ UnexpectedStatus(p) =>
              /\ ~bodyOpen[p] /\ body[p] = <<>>
              /\ n[p] = 0 /\ PartialNow(p) = PrePartial(p)

\* A return on the failure of file.Close, with the handle and the body
\* having been held.
C17_Witness ==
    \E p \in Procs :
        /\ Returned(p) /\ result[p] = "err" /\ renames[p] = 0
        /\ status[p] = StatusPartialContent
        /\ notices[p] = <<NoticeInfoBytes(n[p])>>

(***************************************************************************)
(* C18. Undetected content change: an invocation never compares what it    *)
(* resumes with the entity the server holds. On a 206 it publishes the     *)
(* bytes the Partial File had at the call followed by the bytes of the     *)
(* server's current entity from that length on, and returns success; when  *)
(* the entity was replaced since the Partial File was written, that is a   *)
(* mixture of the old and the new entity.                                  *)
(***************************************************************************)
C18_UndetectedChange ==
    \A p \in Procs :
        /\ (pc[p] = "downloaded" /\ status[p] = StatusPartialContent) =>
              /\ range[p] = Len(PrePartial(p))
              /\ FinalNow = PrePartial(p)
                                \o SuffixFrom(resource, Len(PrePartial(p)))
        /\ (Returned(p) /\ result[p] = "ok" /\ ~PreFinalExists(p)
              /\ status[p] = StatusPartialContent) =>
              /\ \E r \in {Resource, NewResource} :
                    FinalNow = PrePartial(p)
                                   \o SuffixFrom(r, Len(PrePartial(p)))
              /\ notices[p] = <<NoticeInfoBytes(n[p]), NoticeDownloaded>>

\* A successful return that published the first byte of the old entity
\* followed by the new entity from offset 1 on.
C18_Witness ==
    \E p \in Procs :
        /\ Returned(p) /\ result[p] = "ok" /\ status[p] = StatusPartialContent
        /\ resource = NewResource
        /\ range[p] = 1
        /\ PrePartial(p) = SubSeq(Resource, 1, 1)
        /\ FinalNow = SubSeq(Resource, 1, 1) \o SuffixFrom(NewResource, 1)
        /\ FinalNow \notin {Resource, NewResource}

(***************************************************************************)
(* C19. Concurrent invocations race. The function takes no lock: each      *)
(* invocation requests the bytes from the length it measured and appends   *)
(* them at the end the file has when it writes.                            *)
(***************************************************************************)

\* The bytes invocation p asked for and has appended so far are those at
\* offsets range[p] .. range[p] + n[p] - 1 of the resource.
Appended(p) == range[p] # -1 /\ n[p] > 0

\* Two invocations for the same pair have appended bytes for offsets that
\* overlap: both measured the same length, or one measured a length inside
\* what the other was appending.
Race(p, q) ==
    /\ p # q /\ version[p] = version[q]
    /\ Appended(p) /\ Appended(q)
    /\ range[p] < range[q] + n[q]
    /\ range[q] < range[p] + n[p]

\* The bytes agree with the resource as far as both go.
AgreesWithResource(bytes) ==
    IsPrefix(bytes, Resource) \/ IsPrefix(Resource, bytes)

\* C19: as long as no invocation was called while another one for the same
\* pair was in flight, no two invocations have appended bytes for the same
\* offsets, every invocation measured the length the Partial File had at
\* the call and appended the resource's bytes from there, and neither the
\* Partial File nor the Final Artifact holds a duplicated or misplaced byte
\* of the resource.
C19_NoRaceWithoutOverlap ==
    ~overlapped =>
        /\ \A p, q \in Procs : ~Race(p, q)
        /\ \A p \in Procs :
              /\ range[p] # -1 => range[p] = Len(PrePartial(p))
              /\ (status[p] = StatusPartialContent
                    /\ pc[p] \in {"copy", "info", "close"}) =>
                    data[file[p]] =
                        PrePartial(p)
                            \o SubSeq(Resource, range[p] + 1, range[p] + n[p])
              /\ AgreesWithResource(PartialNow(p))
        /\ AgreesWithResource(FinalNow)

\* Two overlapping invocations both measured length 0, both appended the
\* whole resource, and the published file holds it twice over.
C19_Witness ==
    /\ overlapped
    /\ Exists(dir, Final)
    /\ Len(FinalNow) = 2 * Len(Resource)
    /\ ~AgreesWithResource(FinalNow)
    /\ \E p, q \in Procs :
          /\ Race(p, q)
          /\ range[p] = 0 /\ range[q] = 0
          /\ status[p] = StatusPartialContent
          /\ status[q] = StatusPartialContent
          /\ n[p] = Len(Resource) /\ n[q] = Len(Resource)
          /\ Returned(p) /\ result[p] = "ok"

====
